---- MODULE Spec2Model ----
(***************************************************************************)
(* Analytics engine of sejm-analyzer: the pure calculators of              *)
(* src/formulas.py (Shapley-Shubik, Banzhaf, minimal winning coalitions)   *)
(* and the compute-once analytics cache (CacheRepository / Repository      *)
(* with the _get_cached_or_compute helper of the two orchestrators).       *)
(*                                                                         *)
(* A seat map is a Python dict, which keeps insertion order: it is         *)
(* modelled as a sequence of seat counts, party i being the i-th key.      *)
(* A float c / total is modelled as the exact fraction [num, den].         *)
(***************************************************************************)
EXTENDS Integers, Sequences, FiniteSets, TLC

\* ---------------------------------------------------------------- bounds
MaxParties == 3
MaxSeat == 3

MaxCalls == 3

MaxCount == 3
MaxVotes == 2
MaxLen == 3
MaxSeqLen == 4
MaxClubs == 2
MaxVotings == 2

MaxTerms == 2
MaxRepos == 4
MaxOpened == 3

\* ------------------------------------------------------ program constants
DefaultMaxSize == 5
ResultCap == 15
MinDecisions == 10
TopCoalitions == 10

VARIABLES
    seats,      \* formulas: the seat map handed to a calculator
    quota,      \* formulas: the quota handed to a calculator
    fres,       \* formulas: the last calculator call and what it returned
    store,      \* cache: table analytics_cache, (term_id, key) -> data
    data,       \* cache: does the term have seat and voting data in the DB
    last,       \* cache: the last operation, how it ended, what it returned
    probe,      \* caller: the handle and the (term_id, key) one caller keeps asking for
    calls,      \* caller: its calls since the table was last cleared
    invoked,    \* caller: the compute_fn invocations of these calls
    since,      \* caller: what its count starts from: "start", a "clear" of its term, or an "other" clear
    call,       \* statistics: the function called and its arguments
    out,        \* statistics: what the call returned
    workers,    \* race: per concurrent caller, its position in _get_cached_or_compute and its locals
    conn,       \* connections: _local.conn of one thread
    opened,     \* connections: how many connections the thread has opened
    repos,      \* connections: the repositories constructed on the thread
    sync        \* precompute: the last run of precompute_analytics

fvars == <<seats, quota, fres>>
cvars == <<store, data, last>>
pvars == <<probe, calls, invoked, since>>
svars == <<call, out>>
dvars == <<conn, opened, repos>>
xvars == <<workers, conn, opened, repos, sync>>
vars == <<seats, quota, fres, store, data, last, probe, calls, invoked, since, call, out,
          workers, conn, opened, repos, sync>>

\* ------------------------------------------------------------ arithmetic
RECURSIVE SumOver(_, _)
SumOver(f, S) ==
    IF S = {} THEN 0
    ELSE LET x == CHOOSE y \in S : TRUE IN f[x] + SumOver(f, S \ {x})

RECURSIVE Factorial(_)
Factorial(n) == IF n <= 0 THEN 1 ELSE n * Factorial(n - 1)

Min(S) == CHOOSE x \in S : \A y \in S : x <= y

Frac(n, d) == [num |-> n, den |-> d]

\* the Python float 1.0
One == Frac(1, 1)

\* parties = list(seats.keys())
Parties(s) == 1..Len(s)

\* ------------------------------------------------------- shapley_shubik
\* line 17, mutated: only the dict order of the parties is walked
OrderingsDictOrderOnly(s) == {[i \in Parties(s) |-> i]}

\* itertools.permutations(parties): every ordering of the parties
Orderings(s) ==
    {p \in [Parties(s) -> Parties(s)] : \A i, j \in Parties(s) : p[i] = p[j] => i = j}

\* cumsum when the walk of perm reaches position i (no earlier break)
CumSum(s, perm, i) == SumOver([j \in 1..(i - 1) |-> s[perm[j]]], 1..(i - 1))

\* line 21, mutated: the quota must be exceeded, not reached
PivotTestStrict(s, q, perm, i) ==
    CumSum(s, perm, i) < q /\ q < CumSum(s, perm, i) + s[perm[i]]

\* line 21: cumsum < quota <= cumsum + seats[party]
PivotTest(s, q, perm, i) ==
    CumSum(s, perm, i) < q /\ q <= CumSum(s, perm, i) + s[perm[i]]

\* the positions of perm at which the test of line 21 holds
PivotPositions(s, q, perm) == {i \in Parties(s) : PivotTest(s, q, perm, i)}

\* the party counted for perm (0: the walk ends without a count); the walk
\* breaks at the first position that passes the test
PivotParty(s, q, perm) ==
    IF PivotPositions(s, q, perm) = {} THEN 0
    ELSE perm[Min(PivotPositions(s, q, perm))]

\* counts after the loop over all permutations
ShapleyCounts(s, q) ==
    [p \in Parties(s) |-> Cardinality({perm \in Orderings(s) : PivotParty(s, q, perm) = p})]

\* lines 12-13, mutated: only the empty map returns early
ShapleyShubikNoSingle(s, q) ==
    IF Len(s) < 1 THEN <<>>
    ELSE [p \in Parties(s) |-> Frac(ShapleyCounts(s, q)[p], Factorial(Len(s)))]

shapley_shubik(s, q) ==
    IF Len(s) <= 1
    THEN (IF Len(s) = 1 THEN [p \in {1} |-> One] ELSE <<>>)
    ELSE [p \in Parties(s) |-> Frac(ShapleyCounts(s, q)[p], Factorial(Len(s)))]

\* --------------------------------------------------------------- banzhaf
\* coal_votes = sum(seats[p] for p in coal)
Votes(s, coal) == SumOver(s, coal)

\* lines 43-48, mutated: only the coalitions the party belongs to count
IsSwingInsideOnly(s, q, coal, party) ==
    party \in coal /\ SumOver(s, coal) >= q /\ q > SumOver(s, coal) - s[party]

\* lines 43-48: is party a swing for the coalition coal
IsSwing(s, q, coal, party) ==
    IF party \in coal
    THEN Votes(s, coal) >= q /\ q > Votes(s, coal) - s[party]
    ELSE Votes(s, coal) < q /\ q <= Votes(s, coal) + s[party]

\* swings after the loop over every combination of every size 0..n
Swings(s, q) ==
    [p \in Parties(s) |-> Cardinality({coal \in SUBSET Parties(s) : IsSwing(s, q, coal, p)})]

\* line 50, mutated: the absolute index, divided by the number of coalitions
BanzhafTotalAbsolute(s, q) == Cardinality(SUBSET Parties(s))

\* line 50: total = sum(swings.values()) or 1
BanzhafTotal(s, q) ==
    IF SumOver(Swings(s, q), Parties(s)) = 0 THEN 1
    ELSE SumOver(Swings(s, q), Parties(s))

banzhaf(s, q) ==
    IF Len(s) <= 1
    THEN (IF Len(s) = 1 THEN [p \in {1} |-> One] ELSE <<>>)
    ELSE [p \in Parties(s) |-> Frac(Swings(s, q)[p], BanzhafTotal(s, q))]

\* -------------------------------------------------------- min_coalitions
ToSet(seq) == {seq[i] : i \in 1..Len(seq)}

\* itertools.combinations(elems, size), in the order itertools yields them
RECURSIVE Combinations(_, _)
Combinations(elems, size) ==
    IF size = 0 THEN << <<>> >>
    ELSE IF Len(elems) < size THEN <<>>
    ELSE LET with == Combinations(Tail(elems), size - 1)
             without == Combinations(Tail(elems), size)
         IN  [i \in 1..Len(with) |-> <<Head(elems)>> \o with[i]] \o without

\* total = sum(seats[p] for p in combo)
ComboTotal(s, combo) == SumOver(s, ToSet(combo))

\* lines 62 and 71, mutated: the minimality test is left out
QualifiesWinningOnly(s, q, combo) == ComboTotal(s, combo) >= q

\* lines 62 and 71: total >= quota and all(total - seats[p] < quota for p in combo)
Qualifies(s, q, combo) ==
    /\ ComboTotal(s, combo) >= q
    /\ \A p \in ToSet(combo) : ComboTotal(s, combo) - s[p] < q

\* the tuple appended: (frozenset(combo), total, total - quota)
CoalitionItem(s, q, combo) ==
    <<ToSet(combo), ComboTotal(s, combo), ComboTotal(s, combo) - q>>

\* the items one size of the enumeration appends, in order
SearchOfSize(s, q, elems, size) ==
    LET hits == SelectSeq(Combinations(elems, size), LAMBDA c : Qualifies(s, q, c))
    IN  [i \in 1..Len(hits) |-> CoalitionItem(s, q, hits[i])]

\* for size in range(from, to + 1)
RECURSIVE SearchSizes(_, _, _, _, _)
SearchSizes(s, q, elems, from, to) ==
    IF from > to THEN <<>>
    ELSE SearchOfSize(s, q, elems, from) \o SearchSizes(s, q, elems, from + 1, to)

MinOf(a, b) == IF a <= b THEN a ELSE b

\* lines 59-63: range(1, min(max_size + 1, len(parties) + 1))
FirstSearch(s, q, ms) ==
    SearchSizes(s, q, [i \in 1..Len(s) |-> i], 1, MinOf(ms, Len(s)))

\* line 65: max(parties, key=...) is the first party with the largest count
Largest(s) == Min({p \in Parties(s) : \A r \in Parties(s) : s[r] <= s[p]})

\* line 67: others = [p for p in parties if p != largest]
Others(s) == [i \in 1..(Len(s) - 1) |-> IF i < Largest(s) THEN i ELSE i + 1]

\* line 68, mutated: the sizes of the second search ignore max_size
SecondSearchAnySize(s, q, ms) ==
    IF s[Largest(s)] >= q
    THEN SearchSizes(s, q, Others(s), 2, Len(Others(s)))
    ELSE <<>>

\* lines 66-72: range(2, min(max_size + 1, len(others) + 1)) over the others
SecondSearch(s, q, ms) ==
    IF s[Largest(s)] >= q
    THEN SearchSizes(s, q, Others(s), 2, MinOf(ms, Len(Others(s))))
    ELSE <<>>

\* line 76: the sort key (x[2], len(x[0])), compared as Python compares tuples
KeyLess(a, b) ==
    \/ a[3] < b[3]
    \/ a[3] = b[3] /\ Cardinality(a[1]) < Cardinality(b[1])

\* line 76, mutated: the result is left in the order of the search
NoSort(items) == items

\* sorted(result, key=...): stable
RECURSIVE StableSort(_)
StableSort(items) ==
    IF items = <<>> THEN <<>>
    ELSE LET sorted == StableSort(SubSeq(items, 1, Len(items) - 1))
             x == items[Len(items)]
             k == Cardinality({i \in 1..Len(sorted) : ~KeyLess(x, sorted[i])})
         IN  SubSeq(sorted, 1, k) \o <<x>> \o SubSeq(sorted, k + 1, Len(sorted))

\* lines 74-80: keep the first item of every party set
RECURSIVE UniqueFrom(_, _)
UniqueFrom(items, i) ==
    IF i > Len(items) THEN <<>>
    ELSE IF \E j \in 1..(i - 1) : items[j][1] = items[i][1]
         THEN UniqueFrom(items, i + 1)
         ELSE <<items[i]>> \o UniqueFrom(items, i + 1)

Returned(value) == [outcome |-> "ok", value |-> value]
Raised(error) == [outcome |-> "raise", value |-> error]

\* max() of an empty list raises ValueError (line 65)
min_coalitions(s, q, ms) ==
    IF Len(s) = 0 THEN Raised("ValueError")
    ELSE LET result == FirstSearch(s, q, ms) \o SecondSearch(s, q, ms)
             unique == UniqueFrom(StableSort(result), 1)
         IN  Returned(SubSeq(unique, 1, MinOf(ResultCap, Len(unique))))

\* ------------------------------------------- the calculators, as called
SeatMaps == UNION {[1..n -> 0..MaxSeat] : n \in 0..MaxParties}
Quotas == (-1)..(MaxParties * MaxSeat + 1)
MaxSizes == (0..MaxParties) \cup {DefaultMaxSize}

\* total // 2 + 1, mutated: half of the seats suffice
HalfQuota(s) == SumOver(s, Parties(s)) \div 2

\* the quota the orchestrators hand to the calculators: total // 2 + 1
MajorityQuota(s) == (SumOver(s, Parties(s)) \div 2) + 1

\* a four-party chamber of 460 seats (parties A, B, C, D in dict order)
ScenarioSeats == <<200, 150, 100, 10>>

\* six equal parties: with a quota of three seats twenty coalitions qualify,
\* more than line 82 returns
EqualSeats == <<1, 1, 1, 1, 1, 1>>

\* two parties of 50 seats each, asked about with quota 51
EqualPair == <<50, 50>>

NoCall == [fn |-> "none", max_size |-> 0, outcome |-> "none", value |-> <<>>]

FInit ==
    /\ \/ seats \in SeatMaps /\ quota \in Quotas
       \/ seats = ScenarioSeats /\ quota = MajorityQuota(ScenarioSeats)
       \/ seats = EqualSeats /\ quota \in {MajorityQuota(EqualSeats) - 1, MajorityQuota(EqualSeats)}
       \/ seats = EqualPair /\ quota = MajorityQuota(EqualPair)
    /\ fres = NoCall

\* the calculators are pure: a behaviour draws the arguments and makes one call
CallShapleyShubik ==
    /\ fres.fn = "none"
    /\ fres' = [fn |-> "shapley_shubik", max_size |-> 0, outcome |-> "ok",
                value |-> shapley_shubik(seats, quota)]
    /\ UNCHANGED <<seats, quota>>

CallBanzhaf ==
    /\ fres.fn = "none"
    /\ fres' = [fn |-> "banzhaf", max_size |-> 0, outcome |-> "ok",
                value |-> banzhaf(seats, quota)]
    /\ UNCHANGED <<seats, quota>>

CallMinCoalitions(ms) ==
    /\ fres.fn = "none"
    /\ LET r == min_coalitions(seats, quota, ms)
       IN  fres' = [fn |-> "min_coalitions", max_size |-> ms,
                    outcome |-> r.outcome, value |-> r.value]
    /\ UNCHANGED <<seats, quota>>

\* ====================================== the ratio and sequence calculators
Abs(x) == IF x < 0 THEN -x ELSE x

\* the Python float 0.0 (and the int 0 of transition_matrix)
Zero == Frac(0, 1)

FracAdd(a, b) == Frac(a.num * b.den + b.num * a.den, a.den * b.den)

\* two fractions denote the same number (denominators are positive)
FracEq(a, b) == a.num * b.den = b.num * a.den
FracLeq(a, b) == a.num * b.den <= b.num * a.den

\* line 88, mutated: the difference is not made absolute
RiceIndexSigned(yes, no) ==
    IF yes + no # 0 THEN Frac(yes - no, yes + no) ELSE Zero

\* abs(yes - no) / total if total else 0.0
rice_index(yes, no) ==
    LET total == yes + no
    IN  IF total # 0 THEN Frac(Abs(yes - no), total) ELSE Zero

\* sum(rice_index(y, n) for y, n in votes), over the first i votings
RECURSIVE RiceSum(_, _)
RiceSum(votes, i) ==
    IF i = 0 THEN Zero
    ELSE FracAdd(RiceSum(votes, i - 1), rice_index(votes[i][1], votes[i][2]))

\* line 93, mutated: the empty list is not special-cased and the division
\* by len(votes) = 0 raises ZeroDivisionError
AverageRiceNoGuard(votes) ==
    IF Len(votes) = 0 THEN Raised("ZeroDivisionError")
    ELSE Returned(Frac(RiceSum(votes, Len(votes)).num,
                       RiceSum(votes, Len(votes)).den * Len(votes)))

\* sum(...) / len(votes) if votes else 0.0
average_rice(votes) ==
    IF Len(votes) # 0
    THEN Returned(Frac(RiceSum(votes, Len(votes)).num,
                       RiceSum(votes, Len(votes)).den * Len(votes)))
    ELSE Returned(Zero)

\* zip(a, b) stops at the shorter list
Matches(a, b) == Cardinality({i \in 1..MinOf(Len(a), Len(b)) : a[i] = b[i]})

\* lines 98-99, mutated: lists of different lengths are compared as zipped
AgreementRateZipOnly(a, b) ==
    IF Len(a) = 0 THEN Zero ELSE Frac(100 * Matches(a, b), Len(a))

\* sum(x == y for x, y in zip(a, b)) / len(a) * 100
agreement_rate(a, b) ==
    IF Len(a) = 0 \/ Len(a) # Len(b) THEN Zero
    ELSE Frac(100 * Matches(a, b), Len(a))

\* seq = [v for v in sequence if v in ("YES", "NO")]
IsDecision(v) == v \in {"YES", "NO"}
Filtered(sequence) == SelectSeq(sequence, IsDecision)

\* line 112, mutated: the step is counted towards its own state
CountsSameIndex(seq, f, t) ==
    Cardinality({i \in 1..(Len(seq) - 1) : seq[i] = f /\ seq[i] = t})

\* counts[f][t] after the loop of lines 111-112
Counts(seq, f, t) ==
    Cardinality({i \in 1..(Len(seq) - 1) : seq[i] = f /\ seq[i + 1] = t})

\* lines 115-116, mutated: the divisor is the number of all transitions
ProbOfAll(seq, f, t) ==
    IF Len(seq) - 1 # 0 THEN Frac(Counts(seq, f, t), Len(seq) - 1) ELSE Zero

\* prob(f, t): counts[f][t] / total if total else 0
Prob(seq, f, t) ==
    LET total == Counts(seq, f, "YES") + Counts(seq, f, "NO")
    IN  IF total # 0 THEN Frac(Counts(seq, f, t), total) ELSE Zero

transition_matrix(sequence) ==
    LET seq == Filtered(sequence)
    IN  IF Len(seq) < 2
        THEN [yes_to_yes |-> Zero, yes_to_no |-> Zero,
              no_to_yes |-> Zero, no_to_no |-> Zero]
        ELSE [yes_to_yes |-> Prob(seq, "YES", "YES"), yes_to_no |-> Prob(seq, "YES", "NO"),
              no_to_yes |-> Prob(seq, "NO", "YES"), no_to_no |-> Prob(seq, "NO", "NO")]

\* ------------------------------------------------- momentum, volatility
\* lines 126 and 131, mutated: the sum is not halved
SumNotHalved(a, b) == FracAdd(a, b)

\* (a + b) / 2 of two entries of a transition matrix
HalfSum(a, b) == Frac(FracAdd(a, b).num, FracAdd(a, b).den * 2)

momentum(trans) == HalfSum(trans.yes_to_yes, trans.no_to_no)
volatility(trans) == HalfSum(trans.yes_to_no, trans.no_to_yes)

\* round(x, digits) of a non-negative x, scale = 10^digits: to the nearest
\* multiple of 1 / scale, a tie going to the even one
RoundTo(x, scale) ==
    LET n == x.num * scale
        q == n \div x.den
        r == n % x.den
        up == 2 * r > x.den \/ (2 * r = x.den /\ q % 2 = 1)
    IN  Frac(IF up THEN q + 1 ELSE q, scale)

\* ------------------------- the compute functions of the orchestrators
\* what a compute function returns, and the quota it computed on the way
Computed(value, quotas) == [outcome |-> "ok", value |-> value, quotas |-> quotas]

\* total = sum(seats.values()); if not total
NoSeats(s) == SumOver(s, Parties(s)) = 0

\* compute() of power_indices
ComputePowerIndices(s) ==
    IF NoSeats(s) THEN Computed(<<>>, {})
    ELSE LET total == SumOver(s, Parties(s))
             q == MajorityQuota(s)
             ss == shapley_shubik(s, q)
             bz == banzhaf(s, q)
         IN  Computed([p \in Parties(s) |->
                          [party |-> p, seats |-> s[p],
                           seats_pct |-> RoundTo(Frac(s[p] * 100, total), 10),
                           shapley |-> RoundTo(Frac(ss[p].num * 100, ss[p].den), 10),
                           banzhaf |-> RoundTo(Frac(bz[p].num * 100, bz[p].den), 10)]],
                      {q})

\* the dict built from a coalition tuple
CoalitionRecord(c) == [parties |-> c[1], seats |-> c[2], surplus |-> c[3]]

\* lines 125-126, mutated: the zero total is not special-cased
ComputeCoalitionsNoGuard(s) ==
    LET r == min_coalitions(s, MajorityQuota(s), DefaultMaxSize)
    IN  IF r.outcome = "raise"
        THEN [outcome |-> "raise", value |-> r.value, quotas |-> {MajorityQuota(s)}]
        ELSE Computed([i \in 1..MinOf(TopCoalitions, Len(r.value)) |->
                          CoalitionRecord(r.value[i])], {MajorityQuota(s)})

\* compute() of coalitions
ComputeCoalitions(s) ==
    IF NoSeats(s) THEN Computed(<<>>, {})
    ELSE LET r == min_coalitions(s, MajorityQuota(s), DefaultMaxSize)
         IN  IF r.outcome = "raise"
             THEN [outcome |-> "raise", value |-> r.value, quotas |-> {MajorityQuota(s)}]
             ELSE Computed([i \in 1..MinOf(TopCoalitions, Len(r.value)) |->
                               CoalitionRecord(r.value[i])], {MajorityQuota(s)})

\* line 102, mutated: a sequence of exactly ten decisions is skipped too
LongEnoughStrict(seq) == Len(seq) > MinDecisions

\* not (len(seq) < 10)
LongEnough(seq) == Len(seq) >= MinDecisions

MarkovRecord(p, seq) ==
    [party |-> p,
     momentum |-> RoundTo(momentum(transition_matrix(seq)), 1000),
     volatility |-> RoundTo(volatility(transition_matrix(seq)), 1000)]

\* the loop of lines 101-111 over the first n parties of sequences
RECURSIVE MarkovOver(_, _)
MarkovOver(seqs, n) ==
    IF n = 0 THEN <<>>
    ELSE IF LongEnough(seqs[n])
         THEN Append(MarkovOver(seqs, n - 1), MarkovRecord(n, seqs[n]))
         ELSE MarkovOver(seqs, n - 1)

\* compute() of markov
ComputeMarkov(seqs) == Computed(MarkovOver(seqs, Len(seqs)), {})

\* party_votes[p], a vote at a time: True, False or None
PartyVote(rows, v, p) ==
    IF rows[v][p] = "NONE" THEN "None"
    ELSE IF rows[v][p] = "YES" THEN "True" ELSE "False"

\* line 159, mutated: votes without a decision of both parties are kept
SharedAll(rows, p1, p2) == 1..Len(rows)

\* both: the votings where a is not None and b is not None
Shared(rows, p1, p2) ==
    {v \in 1..Len(rows) :
        PartyVote(rows, v, p1) # "None" /\ PartyVote(rows, v, p2) # "None"}

\* sum(a == b for a, b in both)
Agreeing(rows, p1, p2) ==
    Cardinality({v \in Shared(rows, p1, p2) :
                    PartyVote(rows, v, p1) = PartyVote(rows, v, p2)})

MatrixCell(rows, p1, p2) ==
    IF p1 = p2 THEN Frac(100, 1)
    ELSE IF Shared(rows, p1, p2) # {}
         THEN RoundTo(Frac(Agreeing(rows, p1, p2) * 100,
                           Cardinality(Shared(rows, p1, p2))), 10)
         ELSE Zero

\* compute() of agreement_matrix, for the n parties of the seat map
ComputeAgreementMatrix(n, rows) ==
    Computed([p1 \in 1..n |-> [p2 \in 1..n |-> MatrixCell(rows, p1, p2)]], {})

\* ---------------------------------- the ratio calculators, as called
CountsRange == 0..MaxCount

\* every pair of small counts, and the pairs of the unit tests
RiceArgs ==
    (CountsRange \X CountsRange) \cup {<<100, 0>>, <<0, 100>>, <<50, 50>>, <<75, 25>>}

\* the lists of n votings, of n booleans
VoteLists(n) == [1..n -> CountsRange \X CountsRange]
BoolLists(n) == [1..n -> BOOLEAN]

\* a vote is YES, NO or something else (abstained, absent)
Tokens == {"YES", "NO", "ABSTAIN"}

\* ["YES"] * n and ["YES", "NO"] * (n / 2)
AllYes(n) == [i \in 1..n |-> "YES"]
Alternating(n) == [i \in 1..n |-> IF i % 2 = 1 THEN "YES" ELSE "NO"]

\* the sequences of n votes, and the two sequences of the unit tests
TokenSequences(n) == [1..n -> Tokens]
TestSequences == {AllYes(10), Alternating(10)}

NoStat == [fn |-> "none", args |-> <<>>]
NoOut == [fn |-> "none", outcome |-> "none", value |-> <<>>]

\* the arguments of a call of a ratio or sequence calculator are drawn
DrawRatioCall ==
    \/ \E a \in RiceArgs : call = [fn |-> "rice_index", args |-> a]
    \/ \E n \in 0..MaxVotes : \E v \in VoteLists(n) :
           call = [fn |-> "average_rice", args |-> <<v>>]
    \/ \E n, m \in 0..MaxLen : \E a \in BoolLists(n), b \in BoolLists(m) :
           call = [fn |-> "agreement_rate", args |-> <<a, b>>]
    \/ \E n \in 0..MaxSeqLen : \E s \in TokenSequences(n) :
           call = [fn |-> "transition_matrix", args |-> <<s>>]
    \/ \E s \in TestSequences : call = [fn |-> "transition_matrix", args |-> <<s>>]
    \/ \E n \in 0..MaxSeqLen : \E s \in TokenSequences(n) :
           call = [fn |-> "momentum_volatility", args |-> <<s>>]
    \/ \E s \in TestSequences : call = [fn |-> "momentum_volatility", args |-> <<s>>]

\* the decision sequences of a party: of no, one, and about ten decisions
AllNo(n) == [i \in 1..n |-> "NO"]
DecisionLengths == {0, 1, MinDecisions - 1, MinDecisions, MinDecisions + 1}
PartySequences ==
    UNION {{AllYes(n), AllNo(n), Alternating(n)} : n \in DecisionLengths}
VoteSequences(n) == [1..n -> PartySequences]

\* per voting and party: the party's decision, or NONE without a row
Cells == {"YES", "NO", "NONE"}
DecisionRows(n, v) == [1..v -> [1..n -> Cells]]

\* two parties that agree in one of three votings
ThreeVotings == << <<"YES", "YES">>, <<"YES", "NO">>, <<"NO", "YES">> >>

\* the arguments of banzhaf, or the data of a term a compute function reads
DrawOrchestratorCall ==
    \/ \E s \in SeatMaps, q \in Quotas : call = [fn |-> "banzhaf", args |-> <<s, q>>]
    \/ \E s \in SeatMaps : call = [fn |-> "power_indices", args |-> <<s>>]
    \/ \E s \in SeatMaps : call = [fn |-> "coalitions", args |-> <<s>>]
    \/ \E n \in 0..MaxClubs : \E s \in VoteSequences(n) :
           call = [fn |-> "markov", args |-> <<s>>]
    \/ \E n \in 0..MaxClubs, v \in 0..MaxVotings : \E rows \in DecisionRows(n, v) :
           call = [fn |-> "agreement_matrix", args |-> <<n, rows>>]
    \/ call = [fn |-> "agreement_matrix", args |-> <<2, ThreeVotings>>]

CallRiceIndex ==
    /\ call.fn = "rice_index" /\ out.fn = "none"
    /\ out' = [fn |-> call.fn, outcome |-> "ok",
               value |-> rice_index(call.args[1], call.args[2])]
    /\ UNCHANGED call

CallAverageRice ==
    /\ call.fn = "average_rice" /\ out.fn = "none"
    /\ LET r == average_rice(call.args[1])
       IN  out' = [fn |-> call.fn, outcome |-> r.outcome, value |-> r.value]
    /\ UNCHANGED call

CallAgreementRate ==
    /\ call.fn = "agreement_rate" /\ out.fn = "none"
    /\ out' = [fn |-> call.fn, outcome |-> "ok",
               value |-> agreement_rate(call.args[1], call.args[2])]
    /\ UNCHANGED call

CallTransitionMatrix ==
    /\ call.fn = "transition_matrix" /\ out.fn = "none"
    /\ out' = [fn |-> call.fn, outcome |-> "ok",
               value |-> transition_matrix(call.args[1])]
    /\ UNCHANGED call

\* trans = transition_matrix(seq); momentum(trans), volatility(trans)
CallMomentumVolatility ==
    /\ call.fn = "momentum_volatility" /\ out.fn = "none"
    /\ LET trans == transition_matrix(call.args[1])
       IN  out' = [fn |-> call.fn, outcome |-> "ok",
                   value |-> [momentum |-> momentum(trans),
                              volatility |-> volatility(trans)]]
    /\ UNCHANGED call

CallBanzhafIndex ==
    /\ call.fn = "banzhaf" /\ out.fn = "none"
    /\ out' = [fn |-> call.fn, outcome |-> "ok",
               value |-> banzhaf(call.args[1], call.args[2])]
    /\ UNCHANGED call

\* one compute function of the orchestrator runs on the data of a term
RunCompute(fn, r) ==
    /\ call.fn = fn /\ out.fn = "none"
    /\ out' = [fn |-> fn, outcome |-> r.outcome, value |-> r.value,
               quotas |-> r.quotas]
    /\ UNCHANGED call

CallPowerIndices == RunCompute("power_indices", ComputePowerIndices(call.args[1]))
CallCoalitions == RunCompute("coalitions", ComputeCoalitions(call.args[1]))
CallMarkov == RunCompute("markov", ComputeMarkov(call.args[1]))
CallAgreementMatrix ==
    RunCompute("agreement_matrix", ComputeAgreementMatrix(call.args[1], call.args[2]))

\* =================================================== the analytics cache
Terms == {0, 1}

\* the keys of precompute_all, in the order it computes them
MetricKeys == <<"power_indices", "cohesion", "markov", "coalitions", "agreement_matrix">>
Keys == ToSet(MetricKeys)

\* a repository object: its class and the read_only flag it was built with
Handles == [impl : {"CacheRepository", "Repository"}, read_only : BOOLEAN]
Writable == {h \in Handles : ~h.read_only}

\* Python values: None, a bool, or a list / dict that is empty (body "") or not
PyNone == [type |-> "NoneType", body |-> ""]
PyBool(b) == [type |-> "bool", body |-> IF b THEN "True" ELSE "False"]
PyList(body) == [type |-> "list", body |-> body]
PyDict(body) == [type |-> "dict", body |-> body]

\* json.dumps: the text stored in column data
JsonDumps(v) ==
    CASE v.type = "NoneType" -> [open |-> "null", body |-> ""]
      [] v.type = "list" -> [open |-> "[", body |-> v.body]
      [] v.type = "dict" -> [open |-> "{", body |-> v.body]

\* json.loads
JsonLoads(j) ==
    CASE j.open = "null" -> PyNone
      [] j.open = "[" -> PyList(j.body)
      [] j.open = "{" -> PyDict(j.body)

\* what the compute function of a metric returns for a term: without data an
\* empty list (an empty dict for agreement_matrix), else the metric's records
Compute(t, k) ==
    IF k = "agreement_matrix"
    THEN PyDict(IF data[t] THEN "records" ELSE "")
    ELSE PyList(IF data[t] THEN "records" ELSE "")

EmptyTable == [c \in {} |-> PyNone]

\* the rows WHERE term_id = t
RowsOf(st, t) == {c \in DOMAIN st : c[1] = t}

\* SELECT data ... WHERE term_id = ? AND key = ?; json.loads(row[0]) or None
CacheGet(st, t, k) ==
    IF <<t, k>> \in DOMAIN st THEN JsonLoads(st[<<t, k>>]) ELSE PyNone

\* line 58, mutated: true only if all metrics of the term are stored
CacheExistsAllKeys(st, t) == Cardinality(RowsOf(st, t)) = Len(MetricKeys)

\* SELECT COUNT(*) ... WHERE term_id = ?; row[0] > 0
CacheExists(st, t) == Cardinality(RowsOf(st, t)) > 0

\* lines 27-28, mutated: the write is refused without an error
WriteOutcomeWarnOnly(h) == "ok"

\* how set and clear end on a handle: CacheRepository raises when read-only,
\* Repository logs a warning and returns
WriteOutcome(h) ==
    IF h.read_only /\ h.impl = "CacheRepository" THEN "raise" ELSE "ok"

\* INSERT OR REPLACE INTO analytics_cache
Upsert(st, t, k, v) ==
    [c \in DOMAIN st \cup {<<t, k>>} |-> IF c = <<t, k>> THEN JsonDumps(v) ELSE st[c]]

\* set, mutated: the row is never written
SetStoreNoWrite(h, st, t, k, v) == st

\* the table after set(term_id, key, data) on handle h
SetStore(h, st, t, k, v) ==
    IF h.read_only THEN st ELSE Upsert(st, t, k, v)

\* `if term_id:` of clear, for an integer argument
TermIsTruthy(t) == t # 0

\* the table after clear(term_id) on handle h, term_id an integer
ClearTermStore(h, st, t) ==
    IF h.read_only THEN st
    ELSE IF TermIsTruthy(t)
         THEN [c \in DOMAIN st \ RowsOf(st, t) |-> st[c]]
         ELSE EmptyTable

\* the table after clear() on handle h
ClearAllStore(h, st) == IF h.read_only THEN st ELSE EmptyTable

\* `if cached is not None`, mutated: `if cached`
IsHitTruthy(cached) == cached.type # "NoneType" /\ cached.body # ""

\* `if cached is not None`
IsHit(cached) == cached # PyNone

\* _get_cached_or_compute on a table st: how it ends, what it returns, the
\* table afterwards and how often compute_fn was invoked
CachedOrCompute(h, st, t, k) ==
    IF IsHit(CacheGet(st, t, k))
    THEN [outcome |-> "ok", ret |-> CacheGet(st, t, k), store |-> st, computes |-> 0]
    ELSE [outcome |-> WriteOutcome(h),
          ret |-> IF WriteOutcome(h) = "ok" THEN Compute(t, k) ELSE PyNone,
          store |-> SetStore(h, st, t, k, Compute(t, k)),
          computes |-> 1]

\* precompute_all from its i-th metric on; an exception ends it
RECURSIVE RunMetrics(_, _, _, _, _)
RunMetrics(h, st, t, i, computes) ==
    IF i > Len(MetricKeys)
    THEN [outcome |-> "ok", ret |-> PyNone, store |-> st, computes |-> computes]
    ELSE LET r == CachedOrCompute(h, st, t, MetricKeys[i]) IN
         IF r.outcome = "raise"
         THEN [outcome |-> "raise", ret |-> PyNone, store |-> r.store,
               computes |-> computes + r.computes]
         ELSE RunMetrics(h, r.store, t, i + 1, computes + r.computes)

\* what is seen of an operation: how it ended, what it returned and how many
\* compute functions it invoked (arg: the term id a clear was called with)
Done(op, outcome, ret, computes) ==
    [op |-> op, arg |-> {}, outcome |-> outcome, ret |-> ret, computes |-> computes]

\* an empty cache table; term 1 is synced, term 0 holds no data
CInit ==
    /\ store = EmptyTable
    /\ data = [t \in Terms |-> t # 0]
    /\ last = Done("none", "ok", PyNone, 0)

\* CacheRepository.get / Repository.get_analytics_cache
Get(h, t, k) ==
    /\ last' = Done("get", "ok", CacheGet(store, t, k), 0)
    /\ UNCHANGED <<store, data>>

\* CacheRepository.exists / Repository.has_analytics_cache
Exists(h, t) ==
    /\ last' = Done("exists", "ok", PyBool(CacheExists(store, t)), 0)
    /\ UNCHANGED <<store, data>>

\* CacheRepository.set / Repository.set_analytics_cache, with the payload its
\* caller passes: the compute function's result
Set(h, t, k) ==
    /\ store' = SetStore(h, store, t, k, Compute(t, k))
    /\ last' = Done("set", WriteOutcome(h), PyNone, 0)
    /\ UNCHANGED data

\* CacheRepository.clear / Repository.clear_analytics_cache with a term id
ClearTerm(h, t) ==
    /\ store' = ClearTermStore(h, store, t)
    /\ last' = [Done("clear", WriteOutcome(h), PyNone, 0) EXCEPT !.arg = {t}]
    /\ UNCHANGED data

\* CacheRepository.clear / Repository.clear_analytics_cache without argument
ClearAll(h) ==
    /\ store' = ClearAllStore(h, store)
    /\ last' = Done("clear", WriteOutcome(h), PyNone, 0)
    /\ UNCHANGED data

\* VotingAnalytics._get_cached_or_compute / Analytics._get_cached_or_compute
GetOrCompute(h, t, k) ==
    /\ store' = CachedOrCompute(h, store, t, k).store
    /\ last' = Done("get_or_compute", CachedOrCompute(h, store, t, k).outcome,
                    CachedOrCompute(h, store, t, k).ret,
                    CachedOrCompute(h, store, t, k).computes)
    /\ UNCHANGED data

\* VotingAnalytics.precompute_all / Analytics.precompute_all
PrecomputeAll(h, t) ==
    /\ store' = RunMetrics(h, store, t, 1, 0).store
    /\ last' = Done("precompute_all", RunMetrics(h, store, t, 1, 0).outcome,
                    PyNone, RunMetrics(h, store, t, 1, 0).computes)
    /\ UNCHANGED data

\* ------------------------------ one caller of _get_cached_or_compute
NoProbe == [h |-> [impl |-> "CacheRepository", read_only |-> TRUE], t |-> 0, k |-> ""]

SIdle == call = NoStat /\ out = NoOut

\* no concurrent callers, no connection opened, no repository constructed,
\* precompute_analytics not run
NoConn == [id |-> 0, read_only |-> TRUE]
NoSync == [force |-> FALSE, terms |-> <<>>, outcome |-> "none", called |-> <<>>]
XIdle ==
    /\ workers = <<>>
    /\ conn = NoConn /\ opened = 0 /\ repos = <<>>
    /\ sync = NoSync

PIdle ==
    /\ probe = NoProbe
    /\ calls = 0 /\ invoked = 0 /\ since = "start"

\* the caller asks its orchestrator for its metric once more
Call ==
    /\ calls < MaxCalls
    /\ GetOrCompute(probe.h, probe.t, probe.k)
    /\ calls' = calls + 1
    /\ invoked' = invoked + last'.computes
    /\ UNCHANGED <<probe, since>>

\* somebody clears a term through a handle; a clear that is permitted
\* starts the count of the caller's calls anew
ClearBetween(h, t) ==
    /\ ClearTerm(h, t)
    /\ IF h.read_only
       THEN UNCHANGED <<calls, invoked, since>>
       ELSE /\ calls' = 0 /\ invoked' = 0
            /\ since' = IF t = probe.t THEN "clear" ELSE "other"
    /\ UNCHANGED probe

\* the same, clear being called without a term id
ClearAllBetween(h) ==
    /\ ClearAll(h)
    /\ IF h.read_only
       THEN UNCHANGED <<calls, invoked, since>>
       ELSE calls' = 0 /\ invoked' = 0 /\ since' = "clear"
    /\ UNCHANGED probe

\* ------------------------------------------------------- specifications
\* the cache under every sequence of operations; the calculators are idle
Init ==
    /\ CInit
    /\ PIdle
    /\ seats = <<>> /\ quota = 0 /\ fres = NoCall
    /\ SIdle
    /\ XIdle

Next ==
    \/ \E h \in Handles, t \in Terms, k \in Keys :
           Get(h, t, k) /\ UNCHANGED <<fvars, pvars, svars, xvars>>
    \/ \E h \in Handles, t \in Terms :
           Exists(h, t) /\ UNCHANGED <<fvars, pvars, svars, xvars>>
    \/ \E h \in Handles, t \in Terms, k \in Keys :
           Set(h, t, k) /\ UNCHANGED <<fvars, pvars, svars, xvars>>
    \/ \E h \in Handles, t \in Terms :
           ClearTerm(h, t) /\ UNCHANGED <<fvars, pvars, svars, xvars>>
    \/ \E h \in Handles :
           ClearAll(h) /\ UNCHANGED <<fvars, pvars, svars, xvars>>
    \/ \E h \in Handles, t \in Terms, k \in Keys :
           GetOrCompute(h, t, k) /\ UNCHANGED <<fvars, pvars, svars, xvars>>
    \/ \E h \in Handles, t \in Terms :
           PrecomputeAll(h, t) /\ UNCHANGED <<fvars, pvars, svars, xvars>>

\* one caller asking repeatedly for one metric of one term, the table being
\* cleared in between through any handle
CallsInit ==
    /\ CInit
    /\ probe \in [h : Handles, t : Terms, k : Keys]
    /\ calls = 0 /\ invoked = 0 /\ since = "start"
    /\ seats = <<>> /\ quota = 0 /\ fres = NoCall
    /\ SIdle
    /\ XIdle

CallsNext ==
    \/ Call /\ UNCHANGED <<fvars, svars, xvars>>
    \/ \E h \in Handles, t \in Terms : ClearBetween(h, t) /\ UNCHANGED <<fvars, svars, xvars>>
    \/ \E h \in Handles : ClearAllBetween(h) /\ UNCHANGED <<fvars, svars, xvars>>

SpecCalls == CallsInit /\ [][CallsNext]_vars

\* the table after writable callers asked for the metrics ks of term t
RECURSIVE Filled(_, _, _)
Filled(st, t, ks) ==
    IF ks = {} THEN st
    ELSE LET k == CHOOSE x \in ks : TRUE
         IN  Filled(CachedOrCompute([impl |-> "CacheRepository", read_only |-> FALSE],
                                    st, t, k).store, t, ks \ {k})

\* one caller on a read-only CacheRepository, the table holding what writable
\* callers stored before: nothing, one metric, or all metrics of a term
ReaderInit ==
    /\ data = [t \in Terms |-> t # 0]
    /\ \E t \in Terms :
           store \in {Filled(EmptyTable, t, ks) : ks \in {{}, Keys} \cup {{k} : k \in Keys}}
    /\ last = Done("none", "ok", PyNone, 0)
    /\ probe \in [h : {[impl |-> "CacheRepository", read_only |-> TRUE]}, t : Terms, k : Keys]
    /\ calls = 0 /\ invoked = 0 /\ since = "start"
    /\ seats = <<>> /\ quota = 0 /\ fres = NoCall
    /\ SIdle
    /\ XIdle

SpecReader == ReaderInit /\ [][CallsNext]_vars

Spec == Init /\ [][Next]_vars

\* the calculators applied to every bounded input; the cache is idle
FormulasInit ==
    /\ FInit
    /\ store = EmptyTable
    /\ data = [t \in Terms |-> t # 0]
    /\ last = Done("none", "ok", PyNone, 0)
    /\ PIdle
    /\ SIdle
    /\ XIdle

FormulasNext ==
    \/ CallShapleyShubik /\ UNCHANGED <<cvars, pvars, svars, xvars>>
    \/ CallBanzhaf /\ UNCHANGED <<cvars, pvars, svars, xvars>>
    \/ \E ms \in MaxSizes : CallMinCoalitions(ms) /\ UNCHANGED <<cvars, pvars, svars, xvars>>

SpecFormulas == FormulasInit /\ [][FormulasNext]_vars

\* the ratio and sequence calculators and the orchestrator's compute
\* functions applied to every bounded input; cache and power calculators idle
StatsInit ==
    /\ DrawRatioCall \/ DrawOrchestratorCall
    /\ out = NoOut
    /\ seats = <<>> /\ quota = 0 /\ fres = NoCall
    /\ store = EmptyTable
    /\ data = [t \in Terms |-> t # 0]
    /\ last = Done("none", "ok", PyNone, 0)
    /\ PIdle
    /\ XIdle

StatsNext ==
    \/ CallRiceIndex /\ UNCHANGED <<fvars, cvars, pvars, xvars>>
    \/ CallAverageRice /\ UNCHANGED <<fvars, cvars, pvars, xvars>>
    \/ CallAgreementRate /\ UNCHANGED <<fvars, cvars, pvars, xvars>>
    \/ CallTransitionMatrix /\ UNCHANGED <<fvars, cvars, pvars, xvars>>
    \/ CallMomentumVolatility /\ UNCHANGED <<fvars, cvars, pvars, xvars>>
    \/ CallBanzhafIndex /\ UNCHANGED <<fvars, cvars, pvars, xvars>>
    \/ CallPowerIndices /\ UNCHANGED <<fvars, cvars, pvars, xvars>>
    \/ CallCoalitions /\ UNCHANGED <<fvars, cvars, pvars, xvars>>
    \/ CallMarkov /\ UNCHANGED <<fvars, cvars, pvars, xvars>>
    \/ CallAgreementMatrix /\ UNCHANGED <<fvars, cvars, pvars, xvars>>

SpecStats == StatsInit /\ [][StatsNext]_vars

\* ------------------------ concurrent callers of _get_cached_or_compute
\* the claim is about two callers
Callers == {1, 2}

\* a caller about to enter _get_cached_or_compute(t, k, compute_fn) on the
\* orchestrator of repository h; cached and result are its locals
StartWorker(h, t, k) ==
    [h |-> h, t |-> t, k |-> k, pc |-> "get", cached |-> PyNone, result |-> PyNone,
     outcome |-> "none", ret |-> PyNone, computes |-> 0]

\* line 31-33: cached = self._cache.get(term_id, key); a hit returns it
WorkerGet(i) ==
    /\ i \in DOMAIN workers /\ workers[i].pc = "get"
    /\ Get(workers[i].h, workers[i].t, workers[i].k)
    /\ LET w == workers[i]
       IN  workers' = [workers EXCEPT ![i] =
               IF IsHit(last'.ret)
               THEN [w EXCEPT !.cached = last'.ret, !.pc = "done",
                              !.outcome = "ok", !.ret = last'.ret]
               ELSE [w EXCEPT !.cached = last'.ret, !.pc = "compute"]]

\* line 35: result = compute_fn()
WorkerCompute(i) ==
    /\ i \in DOMAIN workers /\ workers[i].pc = "compute"
    /\ LET w == workers[i]
       IN  workers' = [workers EXCEPT ![i] =
               [w EXCEPT !.result = Compute(w.t, w.k), !.computes = w.computes + 1,
                         !.pc = "set"]]
    /\ UNCHANGED cvars

\* lines 36-37: self._cache.set(term_id, key, result); return result
WorkerSet(i) ==
    /\ i \in DOMAIN workers /\ workers[i].pc = "set"
    /\ store' = SetStore(workers[i].h, store, workers[i].t, workers[i].k, workers[i].result)
    /\ last' = Done("set", WriteOutcome(workers[i].h), PyNone, 0)
    /\ LET w == workers[i]
       IN  workers' = [workers EXCEPT ![i] =
               [w EXCEPT !.pc = "done", !.outcome = WriteOutcome(w.h),
                         !.ret = IF WriteOutcome(w.h) = "ok" THEN w.result ELSE PyNone]]
    /\ UNCHANGED data

\* two callers on writable repositories enter for the same absent entry; a
\* statement of SQL is one step
RaceInit ==
    /\ CInit
    /\ \E t \in Terms, k \in Keys :
           workers \in [Callers -> {StartWorker(h, t, k) : h \in Writable}]
    /\ conn = NoConn /\ opened = 0 /\ repos = <<>> /\ sync = NoSync
    /\ PIdle
    /\ seats = <<>> /\ quota = 0 /\ fres = NoCall
    /\ SIdle

RaceNext ==
    \/ \E i \in Callers : WorkerGet(i) /\ UNCHANGED <<fvars, pvars, svars, dvars, sync>>
    \/ \E i \in Callers : WorkerCompute(i) /\ UNCHANGED <<fvars, pvars, svars, dvars, sync>>
    \/ \E i \in Callers : WorkerSet(i) /\ UNCHANGED <<fvars, pvars, svars, dvars, sync>>

SpecRace == RaceInit /\ [][RaceNext]_vars

\* ------------------------------------- thread-local connection, db.py
\* lines 50-54, mutated: a connection of the other mode is replaced
GetDbHonourMode(c, n, read_only) ==
    IF c = NoConn \/ c.read_only # read_only
    THEN [conn |-> [id |-> n + 1, read_only |-> read_only], opened |-> n + 1]
    ELSE [conn |-> c, opened |-> n]

\* get_db(read_only) when _local.conn is c and n connections were opened
\* before: the connection returned (now _local.conn) and the new count
GetDb(c, n, read_only) ==
    IF c = NoConn
    THEN [conn |-> [id |-> n + 1, read_only |-> read_only], opened |-> n + 1]
    ELSE [conn |-> c, opened |-> n]

\* reconnect_db(read_only): close_db(), then get_db(read_only)
ReconnectDb(c, n, read_only) == GetDb(NoConn, n, read_only)

\* BaseRepository.__init__(read_only): self._db = get_db(read_only);
\* self._read_only = read_only
NewRepository(read_only) ==
    /\ Len(repos) < MaxRepos
    /\ GetDb(conn, opened, read_only).opened <= MaxOpened
    /\ conn' = GetDb(conn, opened, read_only).conn
    /\ opened' = GetDb(conn, opened, read_only).opened
    /\ repos' = Append(repos, [db |-> GetDb(conn, opened, read_only).conn,
                                read_only |-> read_only])

\* close_db()
CloseDb ==
    /\ conn' = NoConn
    /\ UNCHANGED <<opened, repos>>

\* BaseRepository.refresh of the i-th repository
Refresh(i) ==
    /\ opened < MaxOpened
    /\ conn' = ReconnectDb(conn, opened, repos[i].read_only).conn
    /\ opened' = ReconnectDb(conn, opened, repos[i].read_only).opened
    /\ repos' = [repos EXCEPT ![i].db = conn']

\* one thread constructing and refreshing repositories and closing its
\* connection
ConnInit ==
    /\ CInit
    /\ PIdle
    /\ seats = <<>> /\ quota = 0 /\ fres = NoCall
    /\ SIdle
    /\ XIdle

ConnNext ==
    \/ \E ro \in BOOLEAN :
           NewRepository(ro) /\ UNCHANGED <<fvars, cvars, pvars, svars, workers, sync>>
    \/ CloseDb /\ UNCHANGED <<fvars, cvars, pvars, svars, workers, sync>>
    \/ \E i \in 1..Len(repos) :
           Refresh(i) /\ UNCHANGED <<fvars, cvars, pvars, svars, workers, sync>>

SpecConn == ConnInit /\ [][ConnNext]_vars

\* ------------------------------------- precompute_analytics, sync_data.py
\* the loop of lines 93-105 from the i-th term of the list on, on the cache
\* repository h; called: the terms precompute_all was called with so far
RECURSIVE RunTerms(_, _, _, _, _, _, _)
RunTerms(h, st, terms, i, force, called, computes) ==
    IF i > Len(terms)
    THEN [outcome |-> "ok", store |-> st, called |-> called, computes |-> computes]
    ELSE LET t == terms[i] IN
         IF ~data[t]
         THEN RunTerms(h, st, terms, i + 1, force, called, computes)
         ELSE IF force /\ WriteOutcome(h) = "raise"
         THEN [outcome |-> "raise", store |-> st, called |-> called, computes |-> computes]
         ELSE LET cleared == IF force THEN ClearTermStore(h, st, t) ELSE st IN
              IF CacheExists(cleared, t) /\ ~force
              THEN RunTerms(h, cleared, terms, i + 1, force, called, computes)
              ELSE LET r == RunMetrics(h, cleared, t, 1, 0) IN
                   IF r.outcome = "raise"
                   THEN [outcome |-> "raise", store |-> r.store,
                         called |-> Append(called, t), computes |-> computes + r.computes]
                   ELSE RunTerms(h, r.store, terms, i + 1, force,
                                 Append(called, t), computes + r.computes)

\* the cache repository of line 83: its flag is False, its connection is
\* the thread's, and on a read-only connection its writes fail
SyncRepository(c) == [impl |-> "CacheRepository", read_only |-> c.read_only]

\* precompute_analytics(terms, force); MpRepository() of line 81 is the
\* first to ask for the thread's connection
PrecomputeAnalytics(terms, force) ==
    LET c == GetDb(conn, opened, TRUE)
        r == RunTerms(SyncRepository(c.conn), store, terms, 1, force, <<>>, 0)
    IN  /\ conn' = c.conn /\ opened' = c.opened
        /\ store' = r.store
        /\ last' = Done("precompute_analytics", r.outcome, PyNone, r.computes)
        /\ sync' = [force |-> force, terms |-> terms, outcome |-> r.outcome,
                    called |-> r.called]
        /\ UNCHANGED <<data, repos>>

\* the lists of terms handed to precompute_analytics
TermLists == UNION {[1..n -> Terms] : n \in 0..MaxTerms}

\* the sets of metrics of a term found in the table: none, one, or all
KeySets == {{}, Keys} \cup {{k} : k \in Keys}

\* a thread without a connection, or with one of either mode; any term may
\* have voting data; the table holds what earlier callers stored
SyncInit ==
    /\ data \in [Terms -> BOOLEAN]
    /\ store \in {Filled(Filled(EmptyTable, 0, ks0), 1, ks1) : ks0, ks1 \in KeySets}
    /\ last = Done("none", "ok", PyNone, 0)
    /\ \E c \in {NoConn, GetDb(NoConn, 0, TRUE).conn, GetDb(NoConn, 0, FALSE).conn} :
           conn = c /\ opened = c.id
    /\ workers = <<>> /\ repos = <<>> /\ sync = NoSync
    /\ PIdle
    /\ seats = <<>> /\ quota = 0 /\ fres = NoCall
    /\ SIdle

SyncNext ==
    \/ \E terms \in TermLists : PrecomputeAnalytics(terms, FALSE)
                                     /\ UNCHANGED <<fvars, pvars, svars, workers>>
    \/ \E terms \in TermLists : PrecomputeAnalytics(terms, TRUE)
                                     /\ UNCHANGED <<fvars, pvars, svars, workers>>

SpecSync == SyncInit /\ [][SyncNext]_vars

\* ------------------------------------------------------ claims on the cache
\* C1 as stated: for either orchestrator and any handle, two or more calls
\* for one (term_id, key) with no clear in between, the first made on a fresh
\* table or right after a clear of the term, invoke the compute function
\* exactly once in all, the later calls being served from the store.
C1_SuccessiveCallsComputeOnce ==
    (calls >= 2 /\ since # "other") =>
        /\ invoked = 1
        /\ last.op = "get_or_compute" => last.computes = 0

\* C1 amended: on a writable handle of either orchestrator, two or more calls
\* for one (term_id, key) with no clear in between invoke the compute
\* function at most once, and exactly once when the first is made on a fresh
\* table or right after a clear of the term (that call invokes it and stores
\* the result); every later call invokes nothing and returns the stored
\* payload.
C1_WritableCallsComputeOnce ==
    (~probe.h.read_only /\ calls >= 1) =>
        /\ invoked <= 1
        /\ since # "other" => invoked = 1
        /\ <<probe.t, probe.k>> \in DOMAIN store
        /\ last.op = "get_or_compute" =>
               /\ last.outcome = "ok"
               /\ calls >= 2 => last.computes = 0
               /\ last.ret = JsonLoads(store[<<probe.t, probe.k>>])

\* after a clear of the term, the second call of a writable caller has been
\* served from the store, the first one having computed again
C1_Witness ==
    /\ ~probe.h.read_only
    /\ since = "clear"
    /\ calls = 2 /\ invoked = 1
    /\ last.op = "get_or_compute" /\ last.computes = 0

\* C2: on a read-only handle every set and every clear call fails with a
\* write-not-permitted error and leaves every cache entry unchanged.
C2_ReadOnlySetAndClearFail ==
    [][\A h \in Handles \ Writable, t \in Terms :
           /\ \A k \in Keys :
                  Set(h, t, k) => (last'.outcome = "raise" /\ store' = store)
           /\ ClearTerm(h, t) => (last'.outcome = "raise" /\ store' = store)
           /\ ClearAll(h) => (last'.outcome = "raise" /\ store' = store)]_vars

\* C7: after precompute_all(term) completes on a writable CacheRepository
\* all five keys of the term are present, empty payloads included; a
\* precompute_all that finds all five present invokes no compute function
\* and leaves the table unchanged.
C7_PrecomputeAllFillsAndRepeatsFree ==
    [][last'.op = "precompute_all" =>
       \A h \in {w \in Writable : w.impl = "CacheRepository"}, t \in Terms :
           PrecomputeAll(h, t) =>
               /\ last'.outcome = "ok"
               /\ \A k \in Keys :
                      /\ <<t, k>> \in DOMAIN store'
                      /\ <<t, k>> \notin DOMAIN store =>
                             JsonLoads(store'[<<t, k>>]) = Compute(t, k)
               /\ last'.computes = Cardinality(Keys) - Cardinality(RowsOf(store, t))
               /\ RowsOf(store, t) = {t} \X Keys =>
                      (last'.computes = 0 /\ store' = store)]_vars

\* a repeated precompute_all of term 0, whose five payloads are all empty,
\* has just completed without computing anything
C7_Witness ==
    /\ last.op = "precompute_all"
    /\ last.outcome = "ok"
    /\ last.computes = 0
    /\ RowsOf(store, 1) = {}
    /\ \A k \in Keys : <<0, k>> \in DOMAIN store /\ JsonLoads(store[<<0, k>>]).body = ""

\* C8: a present entry keeps its payload and stays present until a clear
\* that covers its term (clear of that term id, or clear without term id).
C8_PresentUntilCoveringClear ==
    [][\A c \in DOMAIN store :
           \/ c \in DOMAIN store' /\ store'[c] = store[c]
           \/ last'.op = "clear" /\ last'.arg \in {{}, {c[1]}}]_vars

\* C9: on a writable handle clear(term_id) removes exactly the entries of
\* that term, for every integer term id, and clear() removes every entry.
C9_ClearRemovesExactlyTheTerm ==
    [][\A h \in Writable :
           /\ \A t \in Terms :
                  ClearTerm(h, t) =>
                      /\ RowsOf(store', t) = {}
                      /\ \A c \in DOMAIN store \ RowsOf(store, t) :
                             c \in DOMAIN store' /\ store'[c] = store[c]
           /\ ClearAll(h) => store' = EmptyTable]_vars


\* ------------------------------------------------ claims on the calculators
TotalSeats(s) == SumOver(s, Parties(s))

\* the fractions of a result add up to exactly 1 (they share a denominator)
SumIsOne(v) ==
    \E d \in {v[p].den : p \in DOMAIN v} :
        /\ \A p \in DOMAIN v : v[p].den = d
        /\ SumOver([p \in DOMAIN v |-> v[p].num], DOMAIN v) = d

\* C3: every coalition min_coalitions returns has total seats >= quota and
\* is minimal: no proper subset of its parties has total seats >= quota.
C3_ReturnedCoalitionsMinimalWinning ==
    (fres.fn = "min_coalitions" /\ fres.outcome = "ok") =>
        \A i \in 1..Len(fres.value) :
            LET c == fres.value[i] IN
            /\ c[2] = SumOver(seats, c[1])
            /\ c[2] >= quota
            /\ \A sub \in SUBSET c[1] : sub # c[1] => SumOver(seats, sub) < quota

\* a call that returned a coalition of several parties while the largest
\* party alone meets the quota (both searches ran)
C3_Witness ==
    /\ fres.fn = "min_coalitions" /\ fres.outcome = "ok"
    /\ seats[Largest(seats)] >= quota
    /\ \E i \in 1..Len(fres.value) : Cardinality(fres.value[i][1]) >= 2

\* C4: with at least two parties and 1 <= quota <= total seats, every
\* ordering has exactly one pivotal party, the pivot counts of shapley_shubik
\* add up to n! and the returned values sum to 1.
C4_ShapleyOnePivotSumOne ==
    (/\ fres.fn = "shapley_shubik"
     /\ Len(seats) >= 2
     /\ 1 <= quota /\ quota <= TotalSeats(seats)) =>
        /\ \A perm \in Orderings(seats) :
               Cardinality(PivotPositions(seats, quota, perm)) = 1
        /\ SumOver([p \in Parties(seats) |-> fres.value[p].num], Parties(seats))
               = Factorial(Len(seats))
        /\ SumIsOne(fres.value)

\* shapley_shubik returned for three parties of which two share the power
C4_Witness ==
    /\ fres.fn = "shapley_shubik"
    /\ Len(seats) = 3
    /\ 1 <= quota /\ quota <= TotalSeats(seats)
    /\ \E p, r \in Parties(seats) :
           p # r /\ fres.value[p].num > 0 /\ fres.value[r].num > 0

\* C5 as stated: for every non-empty seat map and every quota the values
\* returned by banzhaf sum to 1.
C5_BanzhafAlwaysSumsToOne ==
    (fres.fn = "banzhaf" /\ Len(seats) >= 1) => SumIsOne(fres.value)

\* C5 amended: banzhaf's values sum to 1 for a single party, and for two or
\* more parties when 1 <= quota <= total seats, each value being the party's
\* swing count over the sum of all swing counts; for two or more parties and
\* a quota <= 0 or above the total seats every value is 0.
C5_BanzhafSumsToOneWhenReachable ==
    (fres.fn = "banzhaf" /\ Len(seats) >= 1) =>
        IF Len(seats) = 1 \/ (1 <= quota /\ quota <= TotalSeats(seats))
        THEN /\ SumIsOne(fres.value)
             /\ Len(seats) >= 2 =>
                    \A p \in Parties(seats) :
                        /\ fres.value[p].num = Swings(seats, quota)[p]
                        /\ fres.value[p].den = SumOver(Swings(seats, quota), Parties(seats))
        ELSE \A p \in Parties(seats) : fres.value[p].num = 0

\* banzhaf returned for several parties of which two have swings
C5_Witness ==
    /\ fres.fn = "banzhaf"
    /\ Len(seats) >= 2
    /\ 1 <= quota /\ quota <= TotalSeats(seats)
    /\ \E p, r \in Parties(seats) :
           p # r /\ fres.value[p].num > 0 /\ fres.value[r].num > 0

\* C6: for a seat map of one party and any quota shapley_shubik and banzhaf
\* return {party: 1.0}; for the empty seat map both return the empty map.
C6_SinglePartyAndEmptyMap ==
    (fres.fn \in {"shapley_shubik", "banzhaf"}) =>
        /\ Len(seats) = 1 => fres.value = [p \in {1} |-> One]
        /\ Len(seats) = 0 => fres.value = <<>>

\* shapley_shubik returned for one party whose seats are below the quota
C6_Witness ==
    /\ fres.fn = "shapley_shubik"
    /\ Len(seats) = 1
    /\ seats[1] < quota
    /\ fres.value[1] = One

\* C10: min_coalitions called with an empty seat map, or with a quota <= 0
\* on any seat map, returns the empty list and does not raise.
C10_EmptyMapOrNonPositiveQuotaReturnsEmpty ==
    (fres.fn = "min_coalitions" /\ (Len(seats) = 0 \/ quota <= 0)) =>
        (fres.outcome = "ok" /\ fres.value = <<>>)

\* C11: for seats {A:200, B:150, C:100, D:10} and quota 231 the result of
\* min_coalitions (default max_size) contains {A,B} with 350 seats and {A,C}
\* with 300 seats and does not contain {A,B,C}.
C11_ScenarioCoalitions ==
    (/\ fres.fn = "min_coalitions" /\ fres.max_size = DefaultMaxSize
     /\ seats = <<200, 150, 100, 10>> /\ quota = 231) =>
        /\ fres.outcome = "ok"
        /\ \E i \in 1..Len(fres.value) : fres.value[i] = <<{1, 2}, 350, 119>>
        /\ \E i \in 1..Len(fres.value) : fres.value[i] = <<{1, 3}, 300, 69>>
        /\ \A i \in 1..Len(fres.value) : fres.value[i][1] # {1, 2, 3}

\* the call on the 460-seat chamber has returned {B,C}, {A,C}, {A,B}
C11_Witness ==
    /\ fres.fn = "min_coalitions" /\ fres.max_size = DefaultMaxSize
    /\ seats = <<200, 150, 100, 10>> /\ quota = 231
    /\ fres.value = <<  <<{2, 3}, 250, 19>>, <<{1, 3}, 300, 69>>, <<{1, 2}, 350, 119>>  >>

\* the minimal winning coalitions of at most ms parties
MinimalWinning(s, q, ms) ==
    {c \in SUBSET Parties(s) :
        /\ 1 <= Cardinality(c) /\ Cardinality(c) <= MinOf(ms, Len(s))
        /\ SumOver(s, c) >= q
        /\ \A sub \in SUBSET c : sub # c => SumOver(s, sub) < q}

\* C12: for a non-empty seat map and a positive quota min_coalitions returns
\* minimal winning coalitions of size 1..min(max_size, n) only, each party
\* set once, with its seats and surplus = seats - quota, in non-decreasing
\* order of (surplus, size); all of them when there are at most 15, else 15
\* of them that no left-out coalition precedes in that order.
C12_AllMinimalCoalitionsSortedCapped ==
    (fres.fn = "min_coalitions" /\ Len(seats) >= 1 /\ quota >= 1) =>
        LET v == fres.value
            mw == MinimalWinning(seats, quota, fres.max_size)
            item(c) == <<c, SumOver(seats, c), SumOver(seats, c) - quota>>
        IN  /\ fres.outcome = "ok"
            /\ \A i \in 1..Len(v) : v[i][1] \in mw /\ v[i] = item(v[i][1])
            /\ \A i, j \in 1..Len(v) : i # j => v[i][1] # v[j][1]
            /\ \A i, j \in 1..Len(v) : i < j => ~KeyLess(v[j], v[i])
            /\ Len(v) = MinOf(ResultCap, Cardinality(mw))
            /\ \A c \in mw :
                   (\A i \in 1..Len(v) : v[i][1] # c) =>
                       \A i \in 1..Len(v) : ~KeyLess(item(c), v[i])

\* a call for which twenty coalitions qualify has returned fifteen of them
C12_Witness ==
    /\ fres.fn = "min_coalitions" /\ fres.outcome = "ok"
    /\ Len(seats) >= 1 /\ quota >= 1
    /\ Cardinality(MinimalWinning(seats, quota, fres.max_size)) > ResultCap
    /\ Len(fres.value) = ResultCap

C14_ZeroDenominatorDefaults ==
    /\ out.fn # "none" => out.outcome = "ok"
    /\ (out.fn = "rice_index" /\ call.args[1] + call.args[2] = 0) =>
           out.value = Zero
    /\ (out.fn = "average_rice" /\ call.args[1] = <<>>) => out.value = Zero
    /\ (out.fn = "agreement_rate" /\ call.args[1] = <<>>) => out.value = Zero
    /\ out.fn = "agreement_matrix" =>
           \A p1, p2 \in 1..call.args[1] :
               (p1 # p2 /\ Shared(call.args[2], p1, p2) = {}) =>
                   out.value[p1][p2] = Zero
    /\ out.fn = "transition_matrix" =>
           LET seq == Filtered(call.args[1]) IN
           /\ Counts(seq, "YES", "YES") + Counts(seq, "YES", "NO") = 0 =>
                  (out.value.yes_to_yes = Zero /\ out.value.yes_to_no = Zero)
           /\ Counts(seq, "NO", "YES") + Counts(seq, "NO", "NO") = 0 =>
                  (out.value.no_to_yes = Zero /\ out.value.no_to_no = Zero)
    /\ (/\ out.fn = "banzhaf" /\ Len(call.args[1]) >= 2
        /\ SumOver(Swings(call.args[1], call.args[2]), Parties(call.args[1])) = 0) =>
           \A p \in Parties(call.args[1]) : out.value[p] = Zero

\* average_rice has returned 0 for the empty list of votings
C14_Witness ==
    /\ out.fn = "average_rice"
    /\ call.args[1] = <<>>
    /\ out.outcome = "ok" /\ out.value = Zero

\* the two probabilities out of state s in a transition matrix
RowOf(trans, s) ==
    IF s = "YES" THEN <<trans.yes_to_yes, trans.yes_to_no>>
    ELSE <<trans.no_to_yes, trans.no_to_no>>

RowSumsToOne(trans, s) == FracEq(FracAdd(RowOf(trans, s)[1], RowOf(trans, s)[2]), One)
RowIsZero(trans, s) == RowOf(trans, s)[1] = Zero /\ RowOf(trans, s)[2] = Zero

\* C15 as stated: for each state s in {YES, NO}, if s occurs at least once
\* in the filtered sequence the two probabilities out of s sum to 1, and if
\* s never occurs both are 0.
C15_RowSumsToOneWhenStateOccurs ==
    out.fn = "transition_matrix" =>
        LET seq == Filtered(call.args[1]) IN
        \A s \in {"YES", "NO"} :
            IF \E i \in 1..Len(seq) : seq[i] = s
            THEN RowSumsToOne(out.value, s)
            ELSE RowIsZero(out.value, s)

\* C15 amended: for each state s in {YES, NO}, if s occurs in the filtered
\* sequence at a position other than the last (it has a successor) the two
\* probabilities out of s sum to 1; otherwise (s never occurs, or only as
\* the last decision) both are 0.
C15_RowSumsToOneWhenStateHasSuccessor ==
    out.fn = "transition_matrix" =>
        LET seq == Filtered(call.args[1]) IN
        \A s \in {"YES", "NO"} :
            IF \E i \in 1..(Len(seq) - 1) : seq[i] = s
            THEN RowSumsToOne(out.value, s)
            ELSE RowIsZero(out.value, s)

\* a matrix returned for a sequence whose only YES is its last decision:
\* the row of NO sums to 1, the row of YES is 0
C15_Witness ==
    /\ out.fn = "transition_matrix"
    /\ Filtered(call.args[1]) = <<"NO", "NO", "YES">>
    /\ Len(call.args[1]) > 3
    /\ RowSumsToOne(out.value, "NO")
    /\ RowIsZero(out.value, "YES")

\* C16: transition_matrix of n >= 2 times YES returns yes_to_yes = 1 and
\* yes_to_no = 0; of a strictly alternating YES/NO sequence with both a
\* YES->NO and a NO->YES step it returns yes_to_no = 1 and no_to_yes = 1
\* with both repeat probabilities 0.
C16_ConstantAndAlternatingSequences ==
    out.fn = "transition_matrix" =>
        LET seq == call.args[1] IN
        /\ (Len(seq) >= 2 /\ \A i \in 1..Len(seq) : seq[i] = "YES") =>
               (FracEq(out.value.yes_to_yes, One) /\ FracEq(out.value.yes_to_no, Zero))
        /\ (/\ \A i \in 1..Len(seq) : IsDecision(seq[i])
            /\ \A i \in 1..(Len(seq) - 1) : seq[i] # seq[i + 1]
            /\ \E i \in 1..(Len(seq) - 1) : seq[i] = "YES"
            /\ \E i \in 1..(Len(seq) - 1) : seq[i] = "NO") =>
               /\ FracEq(out.value.yes_to_no, One)
               /\ FracEq(out.value.no_to_yes, One)
               /\ FracEq(out.value.yes_to_yes, Zero)
               /\ FracEq(out.value.no_to_no, Zero)

\* the matrix of ["YES", "NO"] * 5 has been returned
C16_Witness ==
    /\ out.fn = "transition_matrix"
    /\ call.args[1] = Alternating(10)
    /\ FracEq(out.value.yes_to_no, One) /\ FracEq(out.value.no_to_yes, One)

\* C17: the markov output has a record for a party exactly when the party's
\* sequence has at least 10 decisions, one record per such party; shorter
\* sequences are left out without an error.
C17_MarkovThreshold ==
    out.fn = "markov" =>
        LET seqs == call.args[1] IN
        /\ out.outcome = "ok"
        /\ \A i \in 1..Len(out.value) : out.value[i].party \in 1..Len(seqs)
        /\ \A p \in 1..Len(seqs) :
               Cardinality({i \in 1..Len(out.value) : out.value[i].party = p})
                   = IF Len(seqs[p]) >= 10 THEN 1 ELSE 0

\* of two parties, the one with ten decisions has its record and the one
\* with nine has none
C17_Witness ==
    /\ out.fn = "markov"
    /\ Len(call.args[1]) = 2
    /\ Len(call.args[1][1]) = 9 /\ Len(call.args[1][2]) = 10
    /\ Len(out.value) = 1 /\ out.value[1].party = 2

\* the votings in which both parties have a decision, and those of them in
\* which the two decisions are equal
BothDecided(rows, p, q) ==
    {v \in 1..Len(rows) : rows[v][p] \in {"YES", "NO"} /\ rows[v][q] \in {"YES", "NO"}}
EqualDecisions(rows, p, q) ==
    {v \in BothDecided(rows, p, q) : rows[v][p] = rows[v][q]}

\* the matrix is square over the n parties, 100 on the diagonal, symmetric
\* and within [0, 100]
MatrixShape(m, n) ==
    /\ DOMAIN m = 1..n
    /\ \A p \in 1..n :
           /\ DOMAIN m[p] = 1..n
           /\ m[p][p] = Frac(100, 1)
           /\ \A q \in 1..n :
                  /\ m[p][q] = m[q][p]
                  /\ FracLeq(Zero, m[p][q]) /\ FracLeq(m[p][q], Frac(100, 1))

\* C18 as stated: the agreement matrix is square over the parties, with
\* M[p][p] = 100, M[p][q] = M[q][p], and for p # q M[p][q] = 0 without a
\* vote decided by both and else exactly 100 * equal / both.
C18_MatrixExactRatios ==
    out.fn = "agreement_matrix" =>
        LET n == call.args[1]
            rows == call.args[2]
        IN  /\ MatrixShape(out.value, n)
            /\ \A p, q \in 1..n : p # q =>
                   IF BothDecided(rows, p, q) = {} THEN out.value[p][q] = Zero
                   ELSE FracEq(out.value[p][q],
                               Frac(100 * Cardinality(EqualDecisions(rows, p, q)),
                                    Cardinality(BothDecided(rows, p, q))))

\* C18 amended: as stated, except that for p # q with a vote decided by both
\* M[p][q] is 100 * equal / both rounded to one decimal: a multiple of 0.1
\* at most 0.05 away from the ratio.
C18_MatrixRoundedRatios ==
    out.fn = "agreement_matrix" =>
        LET n == call.args[1]
            rows == call.args[2]
        IN  /\ MatrixShape(out.value, n)
            /\ \A p, q \in 1..n : p # q =>
                   LET both == Cardinality(BothDecided(rows, p, q))
                       equal == Cardinality(EqualDecisions(rows, p, q))
                   IN  IF both = 0 THEN out.value[p][q] = Zero
                       ELSE /\ out.value[p][q].den = 10
                            /\ 2 * Abs(out.value[p][q].num * both - 1000 * equal) <= both

\* two parties agreeing in one of three votings have been given 33.3
C18_Witness ==
    /\ out.fn = "agreement_matrix"
    /\ call.args = <<2, ThreeVotings>>
    /\ out.value[1][2] = Frac(333, 10)
    /\ out.value[2][1] = Frac(333, 10)

\* ------------------------------------- claims on the ratio calculators
\* C19: for boolean lists a, b of equal length n >= 1, agreement_rate(a, b)
\* = 100 * (positions where a and b are equal) / n: 100 for identical
\* lists, 0 for complementary ones, the same for (b, a); when a is empty or
\* the lengths differ the result is 0.
C19_AgreementRate ==
    out.fn = "agreement_rate" =>
        LET a == call.args[1]
            b == call.args[2]
            n == Len(a)
        IN  IF n = 0 \/ n # Len(b) THEN out.value = Zero
            ELSE /\ FracEq(out.value,
                           Frac(100 * Cardinality({i \in 1..n : a[i] = b[i]}), n))
                 /\ a = b => FracEq(out.value, Frac(100, 1))
                 /\ (\A i \in 1..n : a[i] # b[i]) => FracEq(out.value, Zero)
                 /\ FracEq(out.value, agreement_rate(b, a))

\* lists that agree in one of two positions have been given 50
C19_Witness ==
    /\ out.fn = "agreement_rate"
    /\ call.args = << <<TRUE, FALSE>>, <<TRUE, TRUE>> >>
    /\ FracEq(out.value, Frac(50, 1))

C21_EqualSeatsEqualPower ==
    (fres.fn \in {"shapley_shubik", "banzhaf"}) =>
        /\ \A p, r \in Parties(seats) :
               seats[p] = seats[r] => FracEq(fres.value[p], fres.value[r])
        /\ (fres.fn = "shapley_shubik" /\ seats = <<50, 50>> /\ quota = 51) =>
               \A p \in {1, 2} : FracEq(fres.value[p], Frac(1, 2))

\* shapley_shubik returned 1/2 and 1/2 for the two parties of 50 seats
C21_Witness ==
    /\ fres.fn = "shapley_shubik"
    /\ seats = <<50, 50>> /\ quota = 51
    /\ fres.value = <<Frac(1, 2), Frac(1, 2)>>

\* ----------------------------------------- claims on concurrent callers
\* C22: under every interleaving of two writable callers of getOrCompute
\* on one absent (term_id, key), the compute function being deterministic,
\* the store ends with exactly one entry for the key, holding the compute
\* function's result, and both callers return that payload.
C22_RacingCallersAgree ==
    (\A i \in DOMAIN workers : workers[i].pc = "done") =>
        \A i \in DOMAIN workers :
            LET w == workers[i] IN
            /\ DOMAIN store = {<<w.t, w.k>>}
            /\ JsonLoads(store[<<w.t, w.k>>]) = Compute(w.t, w.k)
            /\ w.outcome = "ok"
            /\ w.ret = Compute(w.t, w.k)

\* both callers missed, computed and wrote, and both have returned
C22_Witness ==
    /\ DOMAIN workers = Callers
    /\ \A i \in Callers : workers[i].pc = "done" /\ workers[i].computes = 1

\* ------------------------------------ claims on the thread's connection
\* C23: within one thread get_db returns the connection opened by the first
\* call until close_db is called, whatever read_only later calls pass; a
\* repository constructed with read_only=False after a read_only=True one
\* holds the same connection while its own _read_only flag is False.
C23_FirstConnectionIsKept ==
    [][\A ro \in BOOLEAN :
           NewRepository(ro) =>
               LET new == repos'[Len(repos')] IN
               /\ new.read_only = ro
               /\ conn # NoConn => (new.db = conn /\ conn' = conn)
               /\ \A i \in 1..Len(repos) :
                      (conn # NoConn /\ repos[i].db = conn) => new.db = repos[i].db]_vars

\* the repositories of Container.init: three read-only ones, then the cache
\* repository with read_only=False, all on the read-only connection the
\* first of them opened
C23_Witness ==
    /\ Len(repos) = 4
    /\ \A i \in 1..3 : repos[i].read_only
    /\ ~repos[4].read_only
    /\ \A i \in 1..4 : repos[i].db = conn
    /\ conn.id = 1 /\ conn.read_only

\* ------------------------------------ claims on the read-only cache helper
\* C24: with a read-only CacheRepository _get_cached_or_compute returns the
\* stored payload without error when the entry is present; when it is absent
\* it invokes the compute function and then fails with the cache's write
\* error, returning nothing and leaving the store unchanged, so that a later
\* call for the key invokes the compute function again.
C24_ReadOnlyHelperRecomputesAndFails ==
    [][Call =>
           IF <<probe.t, probe.k>> \in DOMAIN store
           THEN /\ last'.outcome = "ok"
                /\ last'.ret = JsonLoads(store[<<probe.t, probe.k>>])
                /\ last'.computes = 0
                /\ store' = store
           ELSE /\ last'.outcome = "raise"
                /\ last'.ret = PyNone
                /\ last'.computes = 1
                /\ store' = store
                /\ invoked' = invoked + 1
                /\ CachedOrCompute(probe.h, store', probe.t, probe.k).computes = 1]_vars

\* three calls for an absent entry have each computed and failed, the table
\* holding another entry all the while
C24_Witness ==
    /\ probe.h.read_only /\ probe.h.impl = "CacheRepository"
    /\ store # EmptyTable
    /\ <<probe.t, probe.k>> \notin DOMAIN store
    /\ since = "start"
    /\ calls = 3 /\ invoked = 3
    /\ last.op = "get_or_compute" /\ last.outcome = "raise" /\ last.ret = PyNone

\* ----------------------------------------- claims on precompute_analytics
\* C25: precompute_analytics with force=False calls precompute_all for a
\* term only if the term has voting data and the cache holds no entry at
\* all for it; a term with at least one cached entry is skipped with its
\* entries unchanged, whichever of the five metric keys are present.
C25_CachedTermsAreSkipped ==
    [][\A terms \in TermLists :
           PrecomputeAnalytics(terms, FALSE) =>
               /\ \A t \in ToSet(sync'.called) : data[t] /\ RowsOf(store, t) = {}
               /\ \A t \in Terms :
                      RowsOf(store, t) # {} =>
                          /\ t \notin ToSet(sync'.called)
                          /\ RowsOf(store', t) = RowsOf(store, t)
                          /\ \A c \in RowsOf(store, t) : store'[c] = store[c]]_vars

\* a run without force over both terms, both having voting data, has
\* precomputed one and skipped the other, which keeps its single entry
C25_Witness ==
    /\ ~sync.force /\ sync.outcome = "ok"
    /\ Len(sync.terms) = 2 /\ sync.terms[1] # sync.terms[2]
    /\ \A t \in Terms : data[t]
    /\ Len(sync.called) = 1
    /\ \E t \in Terms :
           /\ t \notin ToSet(sync.called)
           /\ Cardinality(RowsOf(store, t)) = 1
    /\ \E t \in ToSet(sync.called) : Cardinality(RowsOf(store, t)) = Len(MetricKeys)

\* --------------------------------------- claims on the coalition search
\* what min_coalitions would return from its first enumeration alone
FirstSearchOnly(s, q, ms) ==
    LET unique == UniqueFrom(StableSort(FirstSearch(s, q, ms)), 1)
    IN  SubSeq(unique, 1, MinOf(ResultCap, Len(unique)))

\* C26: for every seat map, quota and max_size every coalition the second
\* search of min_coalitions appends (over the parties other than the
\* largest, when the largest alone meets the quota) was already appended by
\* the first enumeration, so the returned list is the one the first
\* enumeration alone gives.
C26_SecondSearchAddsNothing ==
    (fres.fn = "min_coalitions" /\ fres.outcome = "ok") =>
        /\ ToSet(SecondSearch(seats, quota, fres.max_size))
               \subseteq ToSet(FirstSearch(seats, quota, fres.max_size))
        /\ fres.value = FirstSearchOnly(seats, quota, fres.max_size)

\* a call in which the second search ran and appended a coalition
C26_Witness ==
    /\ fres.fn = "min_coalitions" /\ fres.outcome = "ok"
    /\ seats[Largest(seats)] >= quota
    /\ Len(SecondSearch(seats, quota, fres.max_size)) >= 1

\* C27: with the orchestrator's quota = total // 2 + 1, whenever one party
\* alone has seats >= quota the coalition list is exactly one entry, the
\* single-party coalition of that party with surplus seats - quota; no
\* coalition of other parties is listed.
C27_DominantPartyIsTheOnlyCoalition ==
    out.fn = "coalitions" =>
        LET s == call.args[1]
            q == (TotalSeats(s) \div 2) + 1
        IN  \A p \in Parties(s) :
                s[p] >= q =>
                    /\ out.outcome = "ok"
                    /\ out.value = <<[parties |-> {p}, seats |-> s[p], surplus |-> s[p] - q]>>

\* coalitions returned for three parties with seats, one of them holding
\* the majority
C27_Witness ==
    /\ out.fn = "coalitions" /\ out.outcome = "ok"
    /\ Len(call.args[1]) = 3
    /\ \A p \in 1..3 : call.args[1][p] >= 1
    /\ \E p \in 1..3 : call.args[1][p] >= (TotalSeats(call.args[1]) \div 2) + 1
    /\ Len(out.value) = 1

\* ------------------------------------- further claims on the power indices
\* C28: for every seat map of at least two parties with non-negative seats
\* and every quota, the swing count banzhaf accumulates for a party p is
\* exactly twice the number of winning coalitions S containing p for which
\* S without p is losing (when some party swings, that count is the
\* numerator of the party's value).
C28_SwingsCountEachCoalitionTwice ==
    (fres.fn = "banzhaf" /\ Len(seats) >= 2) =>
        LET critical(p) ==
                {S \in SUBSET Parties(seats) :
                    /\ p \in S
                    /\ SumOver(seats, S) >= quota
                    /\ SumOver(seats, S \ {p}) < quota}
        IN  \A p \in Parties(seats) :
                /\ Swings(seats, quota)[p] = 2 * Cardinality(critical(p))
                /\ fres.value[p].num = 2 * Cardinality(critical(p))

\* banzhaf returned for three parties, one of them critical in three
\* coalitions (six swings counted)
C28_Witness ==
    /\ fres.fn = "banzhaf" /\ Len(seats) = 3
    /\ \E p \in Parties(seats) : fres.value[p].num = 6

\* C29: for at least two parties and quota = total // 2 + 1, a party with
\* seats >= quota has Shapley-Shubik and Banzhaf value 1 and every other
\* party 0; for every quota >= 1 a party with 0 seats has Shapley-Shubik
\* and Banzhaf value 0.
C29_DominantAndEmptyParties ==
    (fres.fn \in {"shapley_shubik", "banzhaf"} /\ Len(seats) >= 2) =>
        /\ quota = (TotalSeats(seats) \div 2) + 1 =>
               \A p \in Parties(seats) :
                   seats[p] >= quota =>
                       /\ FracEq(fres.value[p], One)
                       /\ \A r \in Parties(seats) \ {p} : FracEq(fres.value[r], Zero)
        /\ quota >= 1 =>
               \A p \in Parties(seats) : seats[p] = 0 => FracEq(fres.value[p], Zero)

\* shapley_shubik returned at the majority quota for three parties with
\* seats, one of them holding exactly the quota
C29_Witness ==
    /\ fres.fn = "shapley_shubik" /\ Len(seats) = 3
    /\ quota = (TotalSeats(seats) \div 2) + 1
    /\ \A p \in Parties(seats) : seats[p] >= 1
    /\ \E p \in Parties(seats) : seats[p] = quota /\ fres.value[p].num = 6

\* --------------------------------------- claims on momentum and volatility
\* C30: for every decision sequence momentum + volatility computed from
\* transition_matrix equals k / 2, k being the number of states among YES
\* and NO with at least one outgoing transition in the filtered sequence; a
\* sequence of n >= 2 identical decisions has momentum 1/2 and volatility
\* 0, one with fewer than 2 YES/NO decisions has both 0.
C30_MomentumPlusVolatility ==
    out.fn = "momentum_volatility" =>
        LET seq == SelectSeq(call.args[1], LAMBDA v : v \in {"YES", "NO"})
            k == Cardinality({f \in {"YES", "NO"} :
                                 \E i \in 1..(Len(seq) - 1) : seq[i] = f})
            m == out.value.momentum
            v == out.value.volatility
        IN  /\ FracEq(FracAdd(m, v), Frac(k, 2))
            /\ (Len(seq) >= 2 /\ \A i \in 1..Len(seq) : seq[i] = seq[1]) =>
                   (FracEq(m, Frac(1, 2)) /\ FracEq(v, Zero))
            /\ Len(seq) < 2 => (FracEq(m, Zero) /\ FracEq(v, Zero))

\* both values returned for a sequence with a vote that is no decision in
\* which YES and NO both have a successor
C30_Witness ==
    /\ out.fn = "momentum_volatility"
    /\ \E i \in 1..Len(call.args[1]) : call.args[1][i] = "ABSTAIN"
    /\ FracEq(FracAdd(out.value.momentum, out.value.volatility), One)
    /\ ~FracEq(out.value.momentum, Zero) /\ ~FracEq(out.value.volatility, Zero)

====
